---- MODULE Spec2Model ----
(***************************************************************************)
(* ngxtop: streaming ingestion of an nginx access log into a windowed SQL  *)
(* store (ngxtop/ngxtop.py, ngxtop/sqlprocessor.py).                       *)
(*                                                                         *)
(* Strings of the program (log formats, log lines, captured values) are    *)
(* sequences of one-character strings, so that matching and conversion are *)
(* computed and not assumed.  Time is the reading of time.time() in clock  *)
(* ticks; the clock starts at 1 (an epoch time is never 0).                *)
(***************************************************************************)
EXTENDS Integers, Sequences, FiniteSets, TLC

(* ---------------------------- bounds ----------------------------------- *)
\* lines read from the source in one run
MaxLines == 3
\* last clock reading explored
MaxTime == 5
\* characters the followed file holds at most
MaxFileLen == 4
\* characters of the longest format given to build_pattern on its own
MaxTemplateLen == 4
\* rows inserted into table log when the queries are studied on their own
MaxRows == 5
\* words of the longest configuration given to get_access_logs
MaxWords == 5

(* ------------------------- program constants --------------------------- *)
\* --interval, in clock ticks (ngxtop.py:15, default 2.0)
Interval == 2
\* REGEX_SPECIAL_CHARS (ngxtop.py:76)
REGEX_SPECIAL_CHARS == {".", "*", "+", "?", "|", "(", ")", "{", "}", "[", "]"}
\* the character class of REGEX_LOG_FORMAT_VARIABLE (ngxtop.py:77)
VariableChars ==
  {"a","b","c","d","e","f","g","h","i","j","k","l","m","n","o","p","q","r",
   "s","t","u","v","w","x","y","z","0","1","2","3","4","5","6","7","8","9","_"}
\* the character class of REGEX_LOG_FORMAT_VARIABLE in config_parser.py:15
ConfigVariableChars ==
  VariableChars \cup
  {"A","B","C","D","E","F","G","H","I","J","K","L","M","N","O","P","Q","R",
   "S","T","U","V","W","X","Y","Z"}
\* DEFAULT_FIELDS (ngxtop.py:111)
DEFAULT_FIELDS == {"status_type", "bytes_sent"}

Digits == {"0","1","2","3","4","5","6","7","8","9"}

DigitVal(c) ==
  CASE c = "0" -> 0 [] c = "1" -> 1 [] c = "2" -> 2 [] c = "3" -> 3
    [] c = "4" -> 4 [] c = "5" -> 5 [] c = "6" -> 6 [] c = "7" -> 7
    [] c = "8" -> 8 [] c = "9" -> 9

(* ------------------------------ values --------------------------------- *)
\* A Python value held in a record: None, an int, a float (in thousandths)
\* or a str.  All three fields are always present.
NoneV == [k |-> "none", n |-> 0, s |-> <<>>]
IntV(i) == [k |-> "int", n |-> i, s |-> <<>>]
FloatV(m) == [k |-> "float", n |-> m, s |-> <<>>]
StrV(cs) == [k |-> "str", n |-> 0, s |-> cs]

\* Python truthiness of a value ("if value")
Truthy(v) ==
  CASE v.k = "none" -> FALSE
    [] v.k = "int" -> v.n # 0
    [] v.k = "float" -> v.n # 0
    [] v.k = "str" -> v.s # <<>>

EmptyRec == [x \in {} |-> NoneV]

RECURSIVE Join(_)
\* ''.join(cs): the string of a sequence of characters
Join(cs) == IF cs = <<>> THEN "" ELSE cs[1] \o Join(Tail(cs))

(* ----------------------- int() and float() ----------------------------- *)
RECURSIVE LStrip(_)
LStrip(cs) == IF cs # <<>> /\ cs[1] = " " THEN LStrip(Tail(cs)) ELSE cs

RECURSIVE RStrip(_)
RStrip(cs) ==
  IF cs # <<>> /\ cs[Len(cs)] = " " THEN RStrip(SubSeq(cs, 1, Len(cs) - 1)) ELSE cs

RECURSIVE DigitsVal(_)
\* value of a non-empty sequence of digits
DigitsVal(cs) ==
  IF cs = <<>> THEN 0 ELSE 10 * DigitsVal(SubSeq(cs, 1, Len(cs) - 1)) + DigitVal(cs[Len(cs)])

AllDigits(cs) == cs # <<>> /\ \A i \in 1..Len(cs) : cs[i] \in Digits

\* an optional sign, then digits only
ParseSigned(t) ==
  LET signed == t # <<>> /\ t[1] \in {"-", "+"}
      body == IF signed THEN Tail(t) ELSE t
  IN IF AllDigits(body)
       THEN [ok |-> TRUE, n |-> IF signed /\ t[1] = "-" THEN 0 - DigitsVal(body) ELSE DigitsVal(body)]
       ELSE [ok |-> FALSE, n |-> 0]

\* int(str): surrounding blanks stripped, an optional sign, then digits only;
\* anything else is a ValueError (ok = FALSE).
ParseInt(cs) == ParseSigned(RStrip(LStrip(cs)))

\* the first three decimals of a digit sequence, as thousandths
Thousandths(cs) ==
  LET d(i) == IF i <= Len(cs) THEN DigitVal(cs[i]) ELSE 0
  IN 100 * d(1) + 10 * d(2) + d(3)

\* an optional sign, digits with at most one '.', at least one digit
ParseDecimal(t) ==
  LET signed == t # <<>> /\ t[1] \in {"-", "+"}
      body == IF signed THEN Tail(t) ELSE t
      dots == {i \in 1..Len(body) : body[i] = "."}
      p == IF dots = {} THEN Len(body) + 1 ELSE CHOOSE i \in dots : TRUE
      ip == SubSeq(body, 1, p - 1)
      fp == SubSeq(body, p + 1, Len(body))
      wellFormed == /\ Cardinality(dots) <= 1
                    /\ \A i \in 1..Len(ip) : ip[i] \in Digits
                    /\ \A i \in 1..Len(fp) : fp[i] \in Digits
                    /\ Len(ip) + Len(fp) > 0
      mag == 1000 * DigitsVal(ip) + Thousandths(fp)
  IN IF wellFormed
       THEN [ok |-> TRUE, n |-> IF signed /\ t[1] = "-" THEN 0 - mag ELSE mag]
       ELSE [ok |-> FALSE, n |-> 0]

\* float(str) on decimal literals: blanks stripped, optional sign, digits with
\* at most one '.', at least one digit.  The value is kept in thousandths.
ParseFloat(cs) == ParseDecimal(RStrip(LStrip(cs)))

\* int(x) of a float in thousandths truncates toward zero
TruncThousandths(m) == IF m >= 0 THEN m \div 1000 ELSE 0 - ((0 - m) \div 1000)

\* to_int that converts text only: any other value gives 0
to_int_of_text(v) ==
  IF v.k # "str" \/ v = StrV(<<"-">>) \/ ~Truthy(v)
    THEN [ok |-> TRUE, v |-> IntV(0)]
    ELSE [ok |-> ParseInt(v.s).ok, v |-> IntV(ParseInt(v.s).n)]

\* to_int(value): int(value) if value and value != '-' else 0
to_int(v) ==
  IF ~Truthy(v) \/ v = StrV(<<"-">>)
    THEN [ok |-> TRUE, v |-> IntV(0)]
    ELSE CASE v.k = "int" -> [ok |-> TRUE, v |-> v]
           [] v.k = "float" -> [ok |-> TRUE, v |-> IntV(TruncThousandths(v.n))]
           [] v.k = "str" -> [ok |-> ParseInt(v.s).ok, v |-> IntV(ParseInt(v.s).n)]

\* to_float(value): float(value) if value and value != '-' else 0.0
to_float(v) ==
  IF ~Truthy(v) \/ v = StrV(<<"-">>)
    THEN [ok |-> TRUE, v |-> FloatV(0)]
    ELSE CASE v.k = "int" -> [ok |-> TRUE, v |-> FloatV(1000 * v.n)]
           [] v.k = "float" -> [ok |-> TRUE, v |-> v]
           [] v.k = "str" -> [ok |-> ParseFloat(v.s).ok, v |-> FloatV(ParseFloat(v.s).n)]

(* --------------------------- build_pattern ----------------------------- *)
\* the name 'combined' as a format string
CombinedName == <<"c","o","m","b","i","n","e","d">>

\* LOG_FORMAT_COMBINED (ngxtop.py:78-80)
LOG_FORMAT_COMBINED ==
  <<"$","r","e","m","o","t","e","_","a","d","d","r"," ","-"," ","$","r","e","m","o","t","e","_","u","s","e","r"," ","[","$","t","i","m","e","_","l","o","c","a","l","]"," ","\"","$","r","e","q","u","e","s","t","\""," ","$","s","t","a","t","u","s"," ","$","b","o","d","y","_","b","y","t","e","s","_","s","e","n","t"," ","\"","$","h","t","t","p","_","r","e","f","e","r","e","r","\""," ","\"","$","h","t","t","p","_","u","s","e","r","_","a","g","e","n","t","\"">>

\* the name 'common' as a format string
CommonName == <<"c","o","m","m","o","n">>

\* LOG_FORMAT_COMMON (config_parser.py:19-21)
LOG_FORMAT_COMMON ==
  <<"$","r","e","m","o","t","e","_","a","d","d","r"," ","-"," ","$","r","e","m","o","t","e","_","u","s","e","r"," ","[","$","t","i","m","e","_","l","o","c","a","l","]"," ","\"","$","r","e","q","u","e","s","t","\""," ","$","s","t","a","t","u","s"," ","$","b","o","d","y","_","b","y","t","e","s","_","s","e","n","t"," ","\"","$","h","t","t","p","_","x","_","f","o","r","w","a","r","d","e","d","_","f","o","r","\"">>

\* length of the longest prefix of cs made of characters of chars
RECURSIVE NameLen(_, _)
NameLen(chars, cs) == IF cs # <<>> /\ cs[1] \in chars THEN 1 + NameLen(chars, Tail(cs)) ELSE 0

\* where character i of cs stands after the substitution below
EscapedAt(cs, i) == i + Cardinality({k \in 1..i : cs[k] \in REGEX_SPECIAL_CHARS})

\* re.sub(REGEX_SPECIAL_CHARS, r'\\\1', log_format): a backslash goes before
\* every character of REGEX_SPECIAL_CHARS, and before no other
Escape(cs) ==
  [j \in 1..(Len(cs) + Cardinality({k \in 1..Len(cs) : cs[k] \in REGEX_SPECIAL_CHARS})) |->
     IF \E i \in 1..Len(cs) : EscapedAt(cs, i) = j
       THEN cs[CHOOSE i \in 1..Len(cs) : EscapedAt(cs, i) = j]
       ELSE "\\"]

\* re.sub(REGEX_LOG_FORMAT_VARIABLE, '(?P<\\1>.*)', pattern): every '$'
\* followed by characters of chars becomes a named group of the longest such
\* name
RECURSIVE Substitute(_, _)
Substitute(chars, cs) ==
  IF cs = <<>> THEN <<>>
  ELSE IF cs[1] = "$" /\ NameLen(chars, Tail(cs)) > 0
    THEN <<"(", "?", "P", "<">> \o SubSeq(cs, 2, NameLen(chars, Tail(cs)) + 1)
           \o <<">", ".", "*", ")">>
           \o Substitute(chars, SubSeq(cs, NameLen(chars, Tail(cs)) + 2, Len(cs)))
    ELSE <<cs[1]>> \o Substitute(chars, Tail(cs))

\* What re.compile gives: the items of the pattern, or the re.error it raised.
Compiled(items) == [err |-> "", items |-> items]
CompileError(e) == [err |-> e, items |-> <<>>]
Then(item, r) == IF r.err # "" THEN r ELSE Compiled(<<item>> \o r.items)

\* re.compile(pattern), reading the pattern text ps from position i on; names
\* are the group names defined so far.  It reads what the two substitutions
\* can make of a format: the named group (?P<name>.*), which is the only thing
\* an unescaped '(' can start; a backslash and the character it escapes; the
\* unescaped '.', '^', '$', ')' and repetition marks.  Of the letters and
\* digits after a backslash it reads 'a' (the bell character) and 'A' (start
\* of the string) only; the formats studied have no other.
RECURSIVE Parse(_, _, _), ParseEscape(_, _, _), ParseGroup(_, _, _, _)
Parse(ps, i, names) ==
  IF i > Len(ps) THEN Compiled(<<>>)
  ELSE CASE ps[i] = "\\" -> ParseEscape(ps, i, names)
         [] ps[i] = "(" -> ParseGroup(ps, i, names, SubSeq(ps, i + 4, i + 3 + NameLen(ConfigVariableChars, SubSeq(ps, i + 4, Len(ps)))))
         [] ps[i] = ")" -> CompileError("unbalanced parenthesis")
         [] ps[i] = "." -> Then([t |-> "any", c |-> "."], Parse(ps, i + 1, names))
         [] ps[i] = "^" -> Then([t |-> "bol", c |-> "^"], Parse(ps, i + 1, names))
         [] ps[i] = "$" -> Then([t |-> "eol", c |-> "$"], Parse(ps, i + 1, names))
         [] ps[i] \in {"*", "+", "?"} ->
              IF i = 1 THEN CompileError("nothing to repeat")
              ELSE Then([t |-> "repeat", c |-> ps[i]], Parse(ps, i + 1, names))
         [] OTHER -> Then([t |-> "lit", c |-> ps[i]], Parse(ps, i + 1, names))

\* a backslash at position i
ParseEscape(ps, i, names) ==
  IF i = Len(ps) THEN CompileError("bad escape (end of pattern)")
  ELSE CASE ps[i + 1] = "a" -> Then([t |-> "lit", c |-> "BEL"], Parse(ps, i + 2, names))
         [] ps[i + 1] = "A" -> Then([t |-> "bol", c |-> "A"], Parse(ps, i + 2, names))
         [] OTHER -> Then([t |-> "lit", c |-> ps[i + 1]], Parse(ps, i + 2, names))

\* "(?P<" at position i, followed by name and ">.*)": a group name must be an
\* identifier and must not have been used
ParseGroup(ps, i, names, name) ==
  IF name[1] \in Digits THEN CompileError("bad character in group name")
  ELSE IF name \in names THEN CompileError("redefinition of group name")
  ELSE Then([t |-> "var", c |-> Join(name)], Parse(ps, i + Len(name) + 8, names \cup {name}))

\* re.compile(pattern)
re_compile(ps) == Parse(ps, 1, {})

\* build_pattern(log_format) of ngxtop.py: the compiled pattern, or the
\* re.error re.compile raised
build_pattern(log_format) ==
  IF log_format = CombinedName
    THEN re_compile(Substitute(VariableChars, Escape(LOG_FORMAT_COMBINED)))
    ELSE re_compile(Substitute(VariableChars, Escape(log_format)))

\* build_pattern(log_format) of config_parser.py
config_parser_build_pattern(log_format) ==
  IF log_format = CombinedName
    THEN re_compile(Substitute(ConfigVariableChars, Escape(LOG_FORMAT_COMBINED)))
  ELSE IF log_format = CommonName
    THEN re_compile(Substitute(ConfigVariableChars, Escape(LOG_FORMAT_COMMON)))
  ELSE re_compile(Substitute(ConfigVariableChars, Escape(log_format)))

\* number of characters from pos on that '.' can match (all but a newline)
RECURSIVE DotRun(_, _)
DotRun(line, pos) ==
  IF pos <= Len(line) /\ line[pos] # "\n" THEN 1 + DotRun(line, pos + 1) ELSE 0

SetMax(S) == CHOOSE x \in S : \A y \in S : y <= x

\* Matching items i.. of the pattern against the line from position pos, with
\* the backtracking of the re module: a group takes the longest run of
\* characters for which the rest of the pattern still matches.  The pattern
\* need not reach the end of the line (pattern.match anchors the start only).
RECURSIVE MatchAt(_, _, _, _)
MatchAt(pat, i, line, pos) ==
  IF i > Len(pat) THEN [ok |-> TRUE, caps |-> [x \in {} |-> <<>>]]
  ELSE LET tok == pat[i]
           fail == [ok |-> FALSE, caps |-> [x \in {} |-> <<>>]]
       IN CASE tok.t = "lit" ->
                 IF pos <= Len(line) /\ line[pos] = tok.c
                   THEN MatchAt(pat, i + 1, line, pos + 1) ELSE fail
            [] tok.t = "any" ->
                 IF pos <= Len(line) /\ line[pos] # "\n"
                   THEN MatchAt(pat, i + 1, line, pos + 1) ELSE fail
            [] tok.t = "bol" ->
                 IF pos = 1 THEN MatchAt(pat, i + 1, line, pos) ELSE fail
            [] tok.t = "eol" ->
                 IF pos = Len(line) + 1 \/ (pos = Len(line) /\ line[pos] = "\n")
                   THEN MatchAt(pat, i + 1, line, pos) ELSE fail
            [] tok.t = "var" ->
                 LET good == {n \in 0..DotRun(line, pos) : MatchAt(pat, i + 1, line, pos + n).ok}
                 IN IF good = {} THEN fail
                    ELSE LET n == SetMax(good)
                             r == MatchAt(pat, i + 1, line, pos + n)
                         IN [ok |-> TRUE,
                             caps |-> [x \in DOMAIN r.caps \cup {tok.c} |->
                                         IF x \in DOMAIN r.caps THEN r.caps[x]
                                         ELSE SubSeq(line, pos, pos + n - 1)]]

\* pattern.match(l): ok = FALSE stands for None
match(pat, line) == MatchAt(pat, 1, line, 1)

\* m.groupdict(): every capture as a str
groupdict(m) == [x \in DOMAIN m.caps |-> StrV(m.caps[x])]

(* ------------------------------ parse_log ------------------------------ *)
\* item[field] = v
Put(item, field, v) == [x \in DOMAIN item \cup {field} |-> IF x = field THEN v ELSE item[x]]

\* item.get(field, None)
Get(item, field) == IF field \in DOMAIN item THEN item[field] ELSE NoneV

\* positions of the blanks of cs
Blanks(cs) == {i \in 1..Len(cs) : cs[i] = " "}

\* ' '.join(s.split(' ')[1:-1]): what lies between the first and the last blank
MiddleTokens(cs) ==
  IF Cardinality(Blanks(cs)) < 2 THEN <<>>
  ELSE LET a == CHOOSE i \in Blanks(cs) : \A j \in Blanks(cs) : i <= j
           b == CHOOSE i \in Blanks(cs) : \A j \in Blanks(cs) : j <= i
       IN SubSeq(cs, a + 1, b - 1)

\* urlparse(uri).path for a uri with no scheme, no netloc and no ';'
\* parameters: the part before the first '?' or '#'
UrlPath(cs) ==
  LET cut == {i \in 1..Len(cs) : cs[i] \in {"?", "#"}}
  IN IF cut = {} THEN cs
     ELSE SubSeq(cs, 1, (CHOOSE i \in cut : \A j \in cut : i <= j) - 1)

\* parse_request_path(record)
parse_request_path(record) ==
  LET uri == IF "request_uri" \in DOMAIN record THEN record["request_uri"]
             ELSE IF "request" \in DOMAIN record THEN StrV(MiddleTokens(record["request"].s))
             ELSE NoneV
  IN IF Truthy(uri) THEN StrV(UrlPath(uri.s)) ELSE NoneV

\* parse_status_type(record)
parse_status_type(record) ==
  IF "status" \in DOMAIN record THEN IntV(record["status"].n \div 100) ELSE NoneV

\* The outcome of one stage: the item, or the exception the stage raised.
Item(rec) == [err |-> "", rec |-> rec]
Raised(e) == [err |-> e, rec |-> EmptyRec]

\* item[field] = func(...), or the ValueError func raised
Converted(item, field, r) ==
  IF r.ok THEN Item(Put(item, field, r.v)) ELSE Raised("ValueError")

\* map_field(field, func, ...) on one item; func is to_int or to_float
map_field(field, isFloat, x) ==
  IF x.err # "" THEN x
  ELSE Converted(x.rec, field,
                 IF isFloat THEN to_float(Get(x.rec, field)) ELSE to_int(Get(x.rec, field)))

\* add_field('status_type', parse_status_type, ...) on one item
add_status_type(x) ==
  IF x.err # "" \/ "status_type" \in DOMAIN x.rec THEN x
  ELSE Item(Put(x.rec, "status_type", parse_status_type(x.rec)))

\* add_field('bytes_sent', lambda r: r['body_bytes_sent'], ...) on one item
add_bytes_sent(x) ==
  IF x.err # "" \/ "bytes_sent" \in DOMAIN x.rec THEN x
  ELSE IF "body_bytes_sent" \in DOMAIN x.rec
    THEN Item(Put(x.rec, "bytes_sent", x.rec["body_bytes_sent"]))
    ELSE Raised("KeyError")

\* add_field('request_path', parse_request_path, ...) on one item
add_request_path(x) ==
  IF x.err # "" \/ "request_path" \in DOMAIN x.rec THEN x
  ELSE Item(Put(x.rec, "request_path", parse_request_path(x.rec)))

\* The stages of parse_log applied to one record, in the order of the source.
derive(rec) ==
  add_request_path(
    map_field("request_time", TRUE,
      map_field("bytes_sent", FALSE,
        add_bytes_sent(
          add_status_type(
            map_field("status", FALSE, Item(rec)))))))

\* parse_log without the "if m is not None" filter: groupdict() of None
records_unfiltered(m) ==
  IF ~m.ok THEN Raised("AttributeError") ELSE derive(groupdict(m))

\* The generators of parse_log on one match: "nomatch" when pattern.match
\* gave None, else the derived record or the exception raised while deriving.
records(m) ==
  IF ~m.ok THEN [err |-> "nomatch", rec |-> EmptyRec] ELSE derive(groupdict(m))

\* parse_log on one line
parse_line(pat, line) == records(match(pat, line))

(* --------------------------- sample inputs ----------------------------- *)
\* Formats and log lines the runs draw from.  No sample holds a character
\* that int(), float() or urlparse read in a way the operators above leave
\* out ('_', 'e', ':', ';').
\* the format "$remote_addr $status"
FmtAddrStatus == <<"$","r","e","m","o","t","e","_","a","d","d","r"," ","$","s","t","a","t","u","s">>

\* the format "$status $body_bytes_sent"
FmtStatusBytes == <<"$","s","t","a","t","u","s"," ","$","b","o","d","y","_","b","y","t","e","s","_","s","e","n","t">>

\* the format "$status $body_bytes_sent $request_time \"$request\""
FmtTimed == <<"$","s","t","a","t","u","s"," ","$","b","o","d","y","_","b","y","t","e","s","_","s","e","n","t"," ","$","r","e","q","u","e","s","t","_","t","i","m","e"," ","\"","$","r","e","q","u","e","s","t","\"">>

\* the format "$remote_addr $body_bytes_sent"
FmtAddrBytes == <<"$","r","e","m","o","t","e","_","a","d","d","r"," ","$","b","o","d","y","_","b","y","t","e","s","_","s","e","n","t">>

\* the line '10.0.0.1 5\n'
LineAddr5 == <<"1","0",".","0",".","0",".","1"," ","5","\n">>

\* the line '10.0.0.1 404\n'
LineAddr404 == <<"1","0",".","0",".","0",".","1"," ","4","0","4","\n">>

\* the line '10.0.0.1 -\n'
LineAddrDash == <<"1","0",".","0",".","0",".","1"," ","-","\n">>

\* the line 'garbage\n'
LineOneWord == <<"g","a","r","b","a","g","e","\n">>

\* the line '200 5\n'
Line200 == <<"2","0","0"," ","5","\n">>

\* the line '404 -\n'
Line404Dash == <<"4","0","4"," ","-","\n">>

\* the line 'abc 5\n'
LineBadStatus == <<"a","b","c"," ","5","\n">>

\* the line '200 x\n'
LineBadBytes == <<"2","0","0"," ","x","\n">>

\* the line '200 5 0.5 "GET /a?b H"\n'
LineTimed == <<"2","0","0"," ","5"," ","0",".","5"," ","\"","G","E","T"," ","/","a","?","b"," ","H","\"","\n">>

\* the line '503 7 - "GET /b H"\n'
LineTimed503 == <<"5","0","3"," ","7"," ","-"," ","\"","G","E","T"," ","/","b"," ","H","\"","\n">>

\* the line '200 5 zz "GET /a H"\n'
LineBadTime == <<"2","0","0"," ","5"," ","z","z"," ","\"","G","E","T"," ","/","a"," ","H","\"","\n">>

\* the line '1 - u [t] "GET /a H" 200 5 "r" "ua"\n'
LineCombined == <<"1"," ","-"," ","u"," ","[","t","]"," ","\"","G","E","T"," ","/","a"," ","H","\""," ","2","0","0"," ","5"," ","\"","r","\""," ","\"","u","a","\"","\n">>

\* the line '1 - u [t] "GET /a H" 200\n'
LineCombinedShort == <<"1"," ","-"," ","u"," ","[","t","]"," ","\"","G","E","T"," ","/","a"," ","H","\""," ","2","0","0","\n">>

Formats == {FmtAddrStatus, FmtStatusBytes, FmtTimed, FmtAddrBytes, CombinedName}

\* the lines a source written for the given format may hold
SampleLines(fmt) ==
  CASE fmt = FmtAddrStatus -> {LineAddr404, LineAddrDash, LineOneWord}
    [] fmt = FmtStatusBytes -> {Line200, Line404Dash, LineBadStatus, LineBadBytes, LineOneWord}
    [] fmt = FmtTimed -> {LineTimed, LineTimed503, LineBadTime, LineOneWord}
    [] fmt = FmtAddrBytes -> {LineAddr5, LineOneWord}
    [] fmt = CombinedName -> {LineCombined, LineCombinedShort}

\* --limit <number> [default: 10]
DefaultLimit == 10

\* values of --second (sqlprocessor.py:15, 118), in clock ticks
Seconds == {1, 3}

\* <query> of the query command: "" when another command is given, a
\* statement sqlite3 prepares, and one it rejects with OperationalError
\* ('near "from": syntax error')
NoQuery == ""
QueryCount == "select count(1) from log"
QueryMalformed == "select from"
Queries == {QueryCount, QueryMalformed}

\* parse_log(lines, build_pattern(fmt)) on each line a source for fmt may
\* hold, computed once: what a line gives depends on the format and the line
\* only.
parse_log ==
  [fmt \in Formats |-> [l \in SampleLines(fmt) |-> parse_line(build_pattern(fmt).items, l)]]

\* pattern.match(l) is not None, for each format and line
Matches ==
  [fmt \in Formats |-> [l \in SampleLines(fmt) |-> match(build_pattern(fmt).items, l).ok]]

(* ------------------------------- state --------------------------------- *)
VARIABLES
  arguments,  \* the docopt arguments of the run
  kind,       \* which SQLProcessor the run drives: "ngxtop" or "sqlprocessor"
  pc,         \* position of the main flow: "start", "setup", "ingesting", "done", "crashed"
  now,        \* the reading of time.time()
  begin,      \* self.begin; 0 is the False of the constructor
  log,        \* the rows of table log, in insertion order, each with its insertion time
  armed,      \* the interval timer of setup_reporter is set
  nextFire,   \* the time the next SIGALRM is due
  stdout,     \* number of reports written to standard output
  nreport,    \* number of report() calls made
  consumed,   \* the lines read from the source so far
  last,       \* the last operation and what it did; display is "" when it
              \* did not reach the screen, else whether curses did its part
  the_file,   \* follow: the characters of the followed file
  offset,     \* follow: how many characters of the file f has read or skipped
  start,      \* follow: the offset f.seek(0, 2) gave; -1 before the seek
  yielded,    \* follow: the strings the generator has yielded, in order
  fpc,        \* follow: "idle" (not studied), "opened", "reading", "sleeping"
  template,   \* build_pattern: the log_format it is given
  builder,    \* build_pattern: "ngxtop" or "config_parser", the module called
  regex,      \* build_pattern: the compiled pattern or the re.error raised
  subject,    \* the line given to pattern.match
  substituted, \* the values the line has in the place of the variables, if any
  found,      \* what pattern.match(line) returned
  ppc,        \* build_pattern: "idle" (not studied), "start", "built", "failed", "matched"
  conf,       \* get_access_logs: the words of the nginx configuration it is given
  access_logs, \* get_access_logs: the pairs it yielded and the exception that ended it
  cpc,        \* get_access_logs: "idle" (not studied), "start", "done"
  hpc,        \* print_report: "idle" (not studied), "main" (the main flow runs),
              \* else the statement of report() the handler is at
  hframe,     \* print_report: what the report() call in progress has read and done
  summary,    \* EMailProcessor: self.summary, a dict from key to count
  detail,     \* EMailProcessor: self.detail, a dict from path to the dict path_info
  access_log_buffer, \* EMailProcessor: self.access_log_buffer, the records appended
  debug,      \* EMailProcessor: self.debug
  mpc,        \* EMailProcessor.process: "idle" (not studied), else the statement of
              \* the loop body the main flow is at
  current,    \* EMailProcessor.process: the record r of the turn in progress
  pending,    \* EMailProcessor.process: the value computed and not yet stored
  path_info,  \* EMailProcessor.process: the dict path_info of the turn in progress
  delivered,  \* what the reports sent with success held, added up
  mreport     \* what the last call of EMailProcessor.report() found and did

\* the state of a run of process()
runVars == <<arguments, kind, pc, now, begin, log, armed, nextFire, stdout, nreport, consumed, last>>

\* the state of the generator follow(the_file) and of its file
followVars == <<the_file, offset, start, yielded, fpc>>

\* the state of build_pattern and pattern.match taken on their own
patternVars == <<template, builder, regex, subject, substituted, found, ppc>>

\* the state of get_access_logs taken on its own
configVars == <<conf, access_logs, cpc>>

\* the state of the handler print_report, taken statement by statement
handlerVars == <<hpc, hframe>>

\* the state of an EMailProcessor, its process() taken statement by statement
mailVars == <<summary, detail, access_log_buffer, debug, mpc, current, pending, path_info,
              delivered, mreport>>

vars == <<runVars, followVars, patternVars, configVars, handlerVars, mailVars>>

NoOp == [op |-> "none", err |-> "", out |-> "", count |-> 0, t1 |-> 0, t2 |-> 0, begin0 |-> 0,
         display |-> ""]

(* ------------------- parts of the program left aside ------------------- *)
\* a run that is in its ingestion loop and is not looked at further
RunIdle ==
  /\ arguments = [cmd |-> "default", var |-> "remote_addr", group_by |-> "request_path",
                  query |-> NoQuery, no_follow |-> FALSE, second |-> 1,
                  log_format |-> CombinedName, limit |-> DefaultLimit]
  /\ kind = "ngxtop"
  /\ pc = "ingesting"
  /\ now = 1
  /\ begin = 1
  /\ log = <<>>
  /\ armed = FALSE
  /\ nextFire = 0
  /\ stdout = 0
  /\ nreport = 0
  /\ consumed = <<>>
  /\ last = NoOp

\* the generator is not under study: the run reads its lines from the
\* samples
FollowIdle ==
  /\ the_file = <<>>
  /\ offset = 0
  /\ start = -1
  /\ yielded = <<>>
  /\ fpc = "idle"

NoPattern == [err |-> "none", items |-> <<>>]
NoMatch == [ok |-> FALSE, caps |-> [x \in {} |-> <<>>]]
NoValues == <<"none">>

PatternIdle ==
  /\ template = <<>>
  /\ builder = ""
  /\ regex = NoPattern
  /\ subject = <<>>
  /\ substituted = NoValues
  /\ found = NoMatch
  /\ ppc = "idle"

NoAccessLogs == [err |-> "none", pairs |-> <<>>]

\* get_access_logs is not under study
ConfigIdle ==
  /\ conf = <<>>
  /\ access_logs = NoAccessLogs
  /\ cpc = "idle"

\* what a report() call has read and done: the row count it read, the rows
\* its queries aggregated, whether its eviction test held, the rows it
\* deleted, and how it ended ("" while it runs, "returned", or the exception)
NoFrame == [count |-> 0, aggregated |-> 0, due |-> FALSE, deleted |-> 0, ended |-> ""]

\* the handler is not looked at statement by statement
HandlerIdle ==
  /\ hpc = "idle"
  /\ hframe = NoFrame

\* the record of no turn
NoRecord == [status |-> "", status_type |-> 0, request_path |-> ""]

\* a dict with no key
EmptyDict == [k \in {} |-> 0]

\* the dict path_info of no turn: left is TRUE once self.detail no longer
\* holds the dict, path is its key in self.detail, dict its items
NoPathInfo == [left |-> FALSE, path |-> "", dict |-> EmptyDict]

\* the records, the count of summary and the counts of detail that the
\* reports sent with success held
NoneDelivered == [buffer |-> 0, count |-> 0, detail |-> 0]

\* what a call of report() found and did: hr and res are what _send_mail
\* returned, before the three attributes as the call found them
NoReport == [called |-> FALSE, hr |-> FALSE, res |-> "", before |-> <<>>]

\* no EMailProcessor is looked at
MailIdle ==
  /\ summary = EmptyDict
  /\ detail = EmptyDict
  /\ access_log_buffer = <<>>
  /\ debug = FALSE
  /\ mpc = "idle"
  /\ current = NoRecord
  /\ pending = 0
  /\ path_info = NoPathInfo
  /\ delivered = NoneDelivered
  /\ mreport = NoReport

(* ---------------------------- the processor ---------------------------- *)
\* build_processor / SQLProcessor.__init__: the columns of table log
build_processor(args) ==
  IF args.cmd \in {"print", "top", "avg", "sum"} THEN {args.var}
  ELSE DEFAULT_FIELDS \cup {args.group_by}

\* build_processor up to the SQLProcessor constructor: the exception it
\* raises, "" when it reaches the constructor.  The query branch reads
\* arguments['<fields>'] (ngxtop.py:366), a key the usage text does not
\* declare and docopt therefore never sets; the statements of <query> are not
\* looked at.
build_processor_raises(args) == IF args.cmd = "query" THEN "KeyError" ELSE ""

\* cursor.execute(query) of report(): sqlite3 prepares the statement there
execute_raises(query) == IF query = QueryMalformed THEN "OperationalError" ELSE ""

\* cursor.execute(insert, r): sqlite3 binds every named parameter of the
\* statement from r and raises when r lacks one; other keys of r are ignored.
insert(fields, r, t) ==
  IF fields \subseteq DOMAIN r
    THEN [err |-> "", rows |-> <<[t |-> t, row |-> [c \in fields |-> r[c]]]>>]
    ELSE [err |-> "ProgrammingError", rows |-> <<>>]

\* report() without its first test: the store counts as begun at once
not_begun_never(bg) == bg = 0 /\ FALSE

\* "if not self.begin"
not_begun(bg) == bg = 0

\* an eviction that swallows the failure of the delete and still restarts
\* the window
evict_moves_begin(lg, bg, t) == [err |-> "", log |-> lg, begin |-> t]

\* sqlprocessor.py:152-153, reached after the with block has closed the
\* cursor: execute on a closed cursor raises before self.begin is assigned.
evict(lg, bg, t) == [err |-> "ProgrammingError", log |-> lg, begin |-> bg]

\* What a report() call gives: the exception it raised or the text it
\* returned ("" for the empty string, "summary" for a text that starts with the
\* summary line), the row count it read, the table and begin it leaves, and
\* how many times it printed the text itself.
Outcome(e, o, lg, bg, printed) ==
  [err |-> e, out |-> o, count |-> Len(lg), log |-> lg, begin |-> bg, printed |-> printed]

\* ngxtop.SQLProcessor.report(); t1 is the time read for duration
ngxtop_report(args, bg, lg, t1) ==
  IF not_begun(bg) THEN Outcome("", "", lg, bg, 0)
  ELSE IF t1 - bg = 0 THEN Outcome("ZeroDivisionError", "", lg, bg, 0)
  ELSE IF execute_raises(args.query) # "" THEN Outcome(execute_raises(args.query), "", lg, bg, 0)
  ELSE Outcome("", "summary", lg, bg, 0)

\* sqlprocessor.SQLProcessor.report(); t1 is the time read for duration, t2
\* the time read for the eviction test
sqlprocessor_report(args, bg, lg, t1, t2) ==
  IF not_begun(bg) THEN Outcome("", "", lg, bg, 0)
  ELSE IF t1 - bg = 0 THEN Outcome("ZeroDivisionError", "", lg, bg, 0)
  ELSE IF execute_raises(args.query) # "" THEN Outcome(execute_raises(args.query), "", lg, bg, 0)
  ELSE IF t2 - bg >= args.second
    THEN IF evict(lg, bg, t2).err # ""
           THEN Outcome(evict(lg, bg, t2).err, "", lg, bg, 0)
           ELSE Outcome("", "summary", evict(lg, bg, t2).log, evict(lg, bg, t2).begin,
                        IF args.no_follow THEN 1 ELSE 0)
    ELSE Outcome("", "summary", lg, bg, IF args.no_follow THEN 1 ELSE 0)

\* processor.report() on the processor the run drives
report(knd, args, bg, lg, t1, t2) ==
  IF knd = "ngxtop" THEN ngxtop_report(args, bg, lg, t1) ELSE sqlprocessor_report(args, bg, lg, t1, t2)

(* ------------------------ build_pattern on its own --------------------- *)
\* the characters of the formats studied: '$', a lower-case letter, an
\* upper-case letter and a digit for variable names, and literal text
TemplateChars == {"$", "a", "A", "1", " ", ".", "\\", "^"}

\* The formats: every string of these characters up to the length studied
\* that has no digit right after a backslash (a group reference or an octal
\* escape, which Parse does not read), and the two names of built-in formats.
Templates ==
  {t \in UNION {[1..k -> TemplateChars] : k \in 1..MaxTemplateLen} :
     \A i \in 1..(Len(t) - 1) : ~(t[i] = "\\" /\ t[i + 1] \in Digits)}
  \cup {CombinedName, CommonName}

\* values put in the place of variables: they hold no character of a format
Values == {<<"x">>, <<"y", "z">>}

PatternInit ==
  /\ RunIdle
  /\ FollowIdle
  /\ ConfigIdle
  /\ HandlerIdle
  /\ MailIdle
  /\ template \in Templates
  /\ builder \in {"ngxtop", "config_parser"}
  /\ regex = NoPattern
  /\ subject = <<>>
  /\ substituted = NoValues
  /\ found = NoMatch
  /\ ppc = "start"

\* pattern = build_pattern(log_format)
BuildPattern ==
  /\ ppc = "start"
  /\ regex' = IF builder = "ngxtop" THEN build_pattern(template)
               ELSE config_parser_build_pattern(template)
  /\ ppc' = IF regex'.err = "" THEN "built" ELSE "failed"
  /\ UNCHANGED <<template, builder, subject, substituted, found>>
  /\ UNCHANGED <<runVars, followVars, configVars, handlerVars, mailVars>>

\* the format a name of a built-in format stands for
Expand(fmt) ==
  IF fmt = CombinedName THEN LOG_FORMAT_COMBINED
  ELSE IF fmt = CommonName THEN LOG_FORMAT_COMMON
  ELSE fmt

\* the names of the variables of a format, in order, a variable being '$' and
\* the longest run of letters, digits and '_' after it
RECURSIVE Variables(_)
Variables(cs) ==
  IF cs = <<>> THEN <<>>
  ELSE IF cs[1] = "$" /\ NameLen(ConfigVariableChars, Tail(cs)) > 0
    THEN <<Join(SubSeq(cs, 2, NameLen(ConfigVariableChars, Tail(cs)) + 1))>>
           \o Variables(SubSeq(cs, NameLen(ConfigVariableChars, Tail(cs)) + 2, Len(cs)))
    ELSE Variables(Tail(cs))

\* the format with the values vals in the place of its variables, in order
RECURSIVE Fill(_, _)
Fill(cs, vals) ==
  IF cs = <<>> THEN <<>>
  ELSE IF cs[1] = "$" /\ NameLen(ConfigVariableChars, Tail(cs)) > 0
    THEN vals[1] \o Fill(SubSeq(cs, NameLen(ConfigVariableChars, Tail(cs)) + 2, Len(cs)), Tail(vals))
    ELSE <<cs[1]>> \o Fill(Tail(cs), vals)

\* the values tried for a format: every choice for a short format, the same
\* value for every variable of a built-in format
ValueVectors(fmt) ==
  IF fmt \in {CombinedName, CommonName}
    THEN {[i \in 1..Len(Variables(Expand(fmt))) |-> v] : v \in Values}
    ELSE [1..Len(Variables(fmt)) -> Values]

\* pattern.match(line) on a line written for the format with the values vals
MatchSubstituted(vals) ==
  /\ ppc = "built"
  /\ substituted' = vals
  /\ subject' = Fill(Expand(template), vals) \o <<"\n">>
  /\ found' = match(regex.items, subject')
  /\ ppc' = "matched"
  /\ UNCHANGED <<template, builder, regex>>
  /\ UNCHANGED <<runVars, followVars, configVars, handlerVars, mailVars>>

\* pattern.match(line) on the text of the format without its k-th character
MatchOther(k) ==
  /\ ppc = "built"
  /\ substituted' = NoValues
  /\ subject' = SubSeq(template, 1, k - 1) \o SubSeq(template, k + 1, Len(template)) \o <<"\n">>
  /\ found' = match(regex.items, subject')
  /\ ppc' = "matched"
  /\ UNCHANGED <<template, builder, regex>>
  /\ UNCHANGED <<runVars, followVars, configVars, handlerVars, mailVars>>

PatternNext ==
  \/ BuildPattern
  \/ \E vals \in ValueVectors(template) : MatchSubstituted(vals)
  \/ \E k \in 1..Len(template) : MatchOther(k)

\* build_pattern and pattern.match on every format studied
SpecPattern == PatternInit /\ [][PatternNext]_vars

(* -------------------------------- follow ------------------------------- *)
\* what a writer appends to the file in one write: a part of a line, the end
\* of a line, a whole line
Chunks == {<<"a">>, <<"\n">>, <<"a", "\n">>}

\* number of characters from position pos on up to and including the first
\* newline, or up to the end of the file when there is none
RECURSIVE LineRun(_, _)
LineRun(cs, pos) ==
  IF pos > Len(cs) THEN 0
  ELSE IF cs[pos] = "\n" THEN 1
  ELSE 1 + LineRun(cs, pos + 1)

\* f.readline() at offset off: the characters up to and including the next
\* newline; at the end of the file what is there, '' when nothing is
readline(cs, off) == SubSeq(cs, off + 1, off + LineRun(cs, off + 1))

\* follow(the_file) after open(the_file)
FollowInit ==
  /\ RunIdle
  /\ PatternIdle
  /\ ConfigIdle
  /\ HandlerIdle
  /\ MailIdle
  /\ the_file = <<>>
  /\ offset = 0
  /\ start = -1
  /\ yielded = <<>>
  /\ fpc = "opened"

\* another process appends to the file
AppendToFile(chunk) ==
  /\ fpc # "idle"
  /\ Len(the_file) + Len(chunk) <= MaxFileLen
  /\ the_file' = the_file \o chunk
  /\ UNCHANGED <<offset, start, yielded, fpc>>
  /\ UNCHANGED <<runVars, patternVars, configVars, handlerVars, mailVars>>

\* f.seek(0, 2)
Seek ==
  /\ fpc = "opened"
  /\ offset' = Len(the_file)
  /\ start' = Len(the_file)
  /\ fpc' = "reading"
  /\ UNCHANGED <<the_file, yielded>>
  /\ UNCHANGED <<runVars, patternVars, configVars, handlerVars, mailVars>>

\* line = f.readline(); "if not line" goes to sleep, else the line is yielded
ReadLine ==
  /\ fpc = "reading"
  /\ IF readline(the_file, offset) = <<>>
       THEN /\ fpc' = "sleeping"
            /\ UNCHANGED <<offset, yielded>>
       ELSE /\ yielded' = Append(yielded, readline(the_file, offset))
            /\ offset' = offset + Len(readline(the_file, offset))
            /\ fpc' = "reading"
  /\ UNCHANGED <<the_file, start>>
  /\ UNCHANGED <<runVars, patternVars, configVars, handlerVars, mailVars>>

\* time.sleep(0.1) returns; continue
WakeUp ==
  /\ fpc = "sleeping"
  /\ fpc' = "reading"
  /\ UNCHANGED <<the_file, offset, start, yielded>>
  /\ UNCHANGED <<runVars, patternVars, configVars, handlerVars, mailVars>>

FollowNext ==
  \/ \E chunk \in Chunks : AppendToFile(chunk)
  \/ Seek
  \/ ReadLine
  \/ WakeUp

\* follow(the_file) next to a writer of the file
SpecFollow == FollowInit /\ [][FollowNext]_vars

(* ------------------------------- actions ------------------------------- *)
\* The options of the run.  second is read by sqlprocessor.SQLProcessor only;
\* the other processor has no window option.
Init ==
  /\ arguments \in {a \in [cmd : {"default", "top", "query"}, var : {"remote_addr"},
                             group_by : {"request_path"}, query : Queries \cup {NoQuery},
                             no_follow : BOOLEAN, second : Seconds, log_format : Formats,
                             limit : {DefaultLimit}] :
                         (a.cmd = "query") <=> (a.query # NoQuery)}
  /\ kind \in {"ngxtop", "sqlprocessor"}
  /\ pc = "start"
  /\ now = 1
  /\ begin = 0
  /\ log = <<>>
  /\ armed = FALSE
  /\ nextFire = 0
  /\ stdout = 0
  /\ nreport = 0
  /\ consumed = <<>>
  /\ last = NoOp
  /\ FollowIdle
  /\ PatternIdle
  /\ ConfigIdle
  /\ HandlerIdle
  /\ MailIdle

Running == pc \in {"start", "setup", "ingesting"}

\* the timer is set and its time has come, whether the process has ended or not
TimerDue_after_exit == armed /\ now >= nextFire

TimerDue == armed /\ pc \in {"setup", "ingesting"} /\ now >= nextFire

\* The clock advances.  A due SIGALRM is delivered before the clock moves on.
Tick ==
  /\ Running
  /\ ~TimerDue
  /\ now < MaxTime
  /\ now' = now + 1
  /\ UNCHANGED <<arguments, kind, pc, begin, log, armed, nextFire, stdout, nreport, consumed, last>>
  /\ UNCHANGED <<followVars, patternVars, configVars, handlerVars, mailVars>>

\* setup_reporter in follow mode: curses.initscr() is called outside any try,
\* so its curses.error leaves process(); else the handler is installed and the
\* timer set.
setup_reporter(scr) ==
  IF scr = "failed"
    THEN /\ pc' = "crashed"
         /\ last' = [NoOp EXCEPT !.op = "setup", !.err = "curses.error", !.display = scr]
         /\ UNCHANGED <<armed, nextFire>>
    ELSE /\ pc' = "setup"
         /\ last' = [NoOp EXCEPT !.op = "setup", !.display = scr]
         /\ armed' = TRUE
         /\ nextFire' \in {now, now + 1}

\* process() up to setup_reporter: the source, the pattern and the processor
\* are built and, in follow mode, the timer is set to fire after 0.1 s, which
\* is within the current clock tick or the next.  An exception raised on the
\* way leaves process() and ends the run.
\* scr is "ok" when curses.initscr() gives a window and "failed" when it
\* raises curses.error (no usable terminal).
Setup(scr) ==
  /\ pc = "start"
  /\ IF build_processor_raises(arguments) # ""
       THEN /\ pc' = "crashed"
            /\ last' = [NoOp EXCEPT !.op = "setup", !.err = build_processor_raises(arguments)]
            /\ UNCHANGED <<armed, nextFire>>
       ELSE IF arguments.no_follow
         THEN /\ pc' = "setup"
              /\ last' = [NoOp EXCEPT !.op = "setup"]
              /\ UNCHANGED <<armed, nextFire>>
         ELSE setup_reporter(scr)
  /\ UNCHANGED <<arguments, kind, now, begin, log, stdout, nreport, consumed>>
  /\ UNCHANGED <<followVars, patternVars, configVars, handlerVars, mailVars>>

\* process_log up to the first statement of processor.process
StartProcess ==
  /\ pc = "setup"
  /\ pc' = "ingesting"
  /\ begin' = now
  /\ last' = [NoOp EXCEPT !.op = "process"]
  /\ UNCHANGED <<arguments, kind, now, log, armed, nextFire, stdout, nreport, consumed>>
  /\ UNCHANGED <<followVars, patternVars, configVars, handlerVars, mailVars>>

\* cursor.execute(insert, r) on what parse_log gave for the line: p.err is
\* "nomatch" (no record), an exception of a stage, or "" with the record.
Execute(p) ==
  LET ins == insert(build_processor(arguments), p.rec, now)
      e == IF p.err # "" THEN p.err ELSE ins.err
  IN /\ log' = IF e = "" THEN log \o ins.rows ELSE log
     /\ pc' = IF e \in {"", "nomatch"} THEN "ingesting" ELSE "crashed"
     /\ last' = [NoOp EXCEPT !.op = "ingest", !.err = e, !.count = Len(log)]

\* One turn of "for r in records": the next line of the source goes through
\* parse_log and the record it gives is inserted.  An exception raised on the
\* way leaves process() and ends the run.
IngestLine(l) ==
  /\ pc = "ingesting"
  /\ Len(consumed) < MaxLines
  /\ consumed' = Append(consumed, l)
  /\ Execute(parse_log[arguments.log_format][l])
  /\ UNCHANGED <<arguments, kind, now, begin, armed, nextFire, stdout, nreport>>
  /\ UNCHANGED <<followVars, patternVars, configVars, handlerVars, mailVars>>

\* SIGALRM: print_report runs processor.report() and draws its output.  An
\* exception of report() leaves the handler into the interrupted main flow.
\* scr is "ok" when scr.addstr(output) draws and "failed" when it raises
\* curses.error, which print_report catches and drops.
TimerFire(d, scr) ==
  /\ TimerDue
  /\ now + d <= MaxTime
  /\ LET r == report(kind, arguments, begin, log, now, now + d)
     IN /\ pc' = IF r.err = "" THEN pc ELSE "crashed"
        /\ log' = r.log
        /\ begin' = r.begin
        /\ stdout' = stdout + r.printed
        /\ last' = [op |-> "report", err |-> r.err, out |-> r.out, count |-> r.count,
                    t1 |-> now, t2 |-> now + d, begin0 |-> begin,
                    display |-> IF r.err = "" THEN scr ELSE ""]
  /\ now' = now + d
  /\ nextFire' = nextFire + Interval
  /\ nreport' = nreport + 1
  /\ UNCHANGED <<arguments, kind, armed, consumed>>
  /\ UNCHANGED <<followVars, patternVars, configVars, handlerVars, mailVars>>

\* --no-follow: the source is at its end, process() returns and process_log
\* prints processor.report().
FinalReport(d) ==
  /\ pc = "ingesting"
  /\ arguments.no_follow
  /\ now + d <= MaxTime
  /\ LET r == report(kind, arguments, begin, log, now, now + d)
     IN /\ pc' = IF r.err = "" THEN "done" ELSE "crashed"
        /\ log' = r.log
        /\ begin' = r.begin
        /\ stdout' = stdout + r.printed + (IF r.err = "" THEN 1 ELSE 0)
        /\ last' = [op |-> "report", err |-> r.err, out |-> r.out, count |-> r.count,
                    t1 |-> now, t2 |-> now + d, begin0 |-> begin, display |-> ""]
  /\ now' = now + d
  /\ nreport' = nreport + 1
  /\ UNCHANGED <<arguments, kind, armed, nextFire, consumed>>
  /\ UNCHANGED <<followVars, patternVars, configVars, handlerVars, mailVars>>

Next ==
  \/ Tick
  \/ \E scr \in {"ok", "failed"} : Setup(scr)
  \/ StartProcess
  \/ \E l \in SampleLines(arguments.log_format) : IngestLine(l)
  \/ \E d \in 0..1, scr \in {"ok", "failed"} : TimerFire(d, scr)
  \/ \E d \in 0..1 : FinalReport(d)

Spec == Init /\ [][Next]_vars

(* ----------------------- the queries on their own ---------------------- *)
\* The store and its report queries taken on their own: records are derived
\* and inserted, and the queries build_processor made are executed on table
\* log as report() does.  consumed holds the captures the records came from.

\* values of --limit: int() takes a negative number too, and sqlite reads a
\* negative limit as no limit
Limits == {-1, 0, 1, 2}

\* the status a line may hold
StoreStatuses == {<<"2","0","0">>, <<"3","0","1">>, <<"4","0","4">>, <<"5","0","3">>,
                  <<"6","0","0">>, <<"-">>}

\* the remote address a line may hold
StoreAddrs == {<<"a">>, <<"b">>, <<"c">>}

\* groupdict() of a line of the format "$remote_addr $status $body_bytes_sent"
Capture(addr, status) ==
  [x \in {"remote_addr", "status", "body_bytes_sent"} |->
     CASE x = "remote_addr" -> StrV(addr)
       [] x = "status" -> StrV(status)
       [] x = "body_bytes_sent" -> StrV(<<"5">>)]

\* the captures studied: the statuses for the default queries, which leave
\* the address out of the table, and the addresses for "top remote_addr",
\* whose table has that one column
Captures(args) ==
  IF args.cmd = "top" THEN {Capture(a, <<"2","0","0">>) : a \in StoreAddrs}
  ELSE {Capture(<<"a">>, st) : st \in StoreStatuses}

\* a count of the rows whose status_type is b or more
Bucket_at_least(lg, b) ==
  Cardinality({i \in 1..Len(lg) : lg[i].row["status_type"].k = "int" /\ lg[i].row["status_type"].n >= b})

\* count(CASE WHEN status_type = b THEN 1 END): the rows whose status_type is
\* the integer b; NULL and text are equal to no integer
Bucket(lg, b) == Cardinality({i \in 1..Len(lg) : lg[i].row["status_type"] = IntV(b)})

RECURSIVE SumBytes(_)
\* the sum avg(bytes_sent) divides, over the integers of the column
SumBytes(lg) ==
  IF lg = <<>> THEN 0
  ELSE (IF lg[1].row["bytes_sent"].k = "int" THEN lg[1].row["bytes_sent"].n ELSE 0)
       + SumBytes(Tail(lg))

\* avg(bytes_sent): NULL when no row has a value, else a float
AvgBytes(lg) ==
  IF \A i \in 1..Len(lg) : lg[i].row["bytes_sent"] = NoneV THEN NoneV
  ELSE FloatV((1000 * SumBytes(lg)) \div
              Cardinality({i \in 1..Len(lg) : lg[i].row["bytes_sent"] # NoneV}))

\* the aggregates of the two default queries over the rows lg: count,
\* avg_bytes_sent and the columns '2xx', '3xx', '4xx', '5xx'
Aggregates(lg) ==
  [count |-> Len(lg), avg_bytes_sent |-> AvgBytes(lg), xx |-> [b \in 2..5 |-> Bucket(lg, b)]]

\* a query without its "limit n"
not_limited(rows, n) == IF n < 0 THEN rows ELSE rows

\* "limit n"
Limited(rows, n) == IF n < 0 \/ n >= Len(rows) THEN rows ELSE SubSeq(rows, 1, n)

\* the Summary query: an aggregate query without "group by" has one row,
\* on an empty table too
summary_query(lg, n) == Limited(<<Aggregates(lg)>>, n)

\* "group by col": the values of the column, one group each
GroupKeys(lg, col) == {lg[i].row[col] : i \in 1..Len(lg)}

\* the rows of the group of value v
Group(lg, col, v) ==
  LET InGroup(r) == r.row[col] = v
  IN SelectSeq(lg, InGroup)

\* "order by count desc": the orders the groups may come in.  The statement
\* names no second sort key, so sqlite returns groups of equal count in an
\* order of its own (sqlite 3.40: by descending value of col).
Orderings(lg, col) ==
  {o \in [1..Cardinality(GroupKeys(lg, col)) -> GroupKeys(lg, col)] :
     /\ \A i, j \in DOMAIN o : i # j => o[i] # o[j]
     /\ \A i, j \in DOMAIN o : i < j => Len(Group(lg, col, o[i])) >= Len(Group(lg, col, o[j]))}

\* 'select %s, count(1) as count from log group by %s order by count desc
\* limit %d', the groups coming in the order o
top_query(lg, col, o, n) ==
  Limited([i \in DOMAIN o |-> [value |-> o[i], count |-> Len(Group(lg, col, o[i]))]], n)

\* the Detailed query with the default --having 1 and --order-by count
detailed_query(lg, col, o, n) ==
  Limited([i \in DOMAIN o |-> [value |-> o[i], row |-> Aggregates(Group(lg, col, o[i]))]], n)

\* the column the queries of the command group by
GroupColumn(args) == IF args.cmd = "top" THEN args.var ELSE args.group_by

StoreInit ==
  /\ arguments \in {a \in [cmd : {"default", "top"}, var : {"remote_addr"},
                             group_by : {"request_path"}, query : {NoQuery},
                             no_follow : {FALSE}, second : {1},
                             log_format : {CombinedName}, limit : Limits] :
                         a.cmd = "default" => a.limit \in {0, 2}}
  /\ kind = "ngxtop"
  /\ pc = "ingesting"
  /\ now = 1
  /\ begin = 1
  /\ log = <<>>
  /\ armed = FALSE
  /\ nextFire = 0
  /\ stdout = 0
  /\ nreport = 0
  /\ consumed = <<>>
  /\ last = NoOp
  /\ FollowIdle
  /\ PatternIdle
  /\ ConfigIdle
  /\ HandlerIdle
  /\ MailIdle

\* the stages of parse_log on the captures of one line, then
\* cursor.execute(insert, r)
StoreRecord(captured) ==
  /\ pc = "ingesting"
  /\ Len(log) < MaxRows
  /\ consumed' = Append(consumed, captured)
  /\ Execute(derive(captured))
  /\ UNCHANGED <<arguments, kind, now, begin, armed, nextFire, stdout, nreport>>
  /\ UNCHANGED <<followVars, patternVars, configVars, handlerVars, mailVars>>

\* "for query in self.report_queries: cursor.execute(query) ...
\* cursor.fetchall()" of report(), the groups coming in the order o
ExecuteQueries(o) ==
  /\ pc = "ingesting"
  /\ last.op # "queries"
  /\ last' = IF arguments.cmd = "top"
               THEN [op |-> "queries", err |-> "", summary |-> <<>>, detailed |-> <<>>,
                     top |-> top_query(log, arguments.var, o, arguments.limit)]
               ELSE [op |-> "queries", err |-> "",
                     summary |-> summary_query(log, arguments.limit),
                     detailed |-> detailed_query(log, arguments.group_by, o, arguments.limit),
                     top |-> <<>>]
  /\ UNCHANGED <<arguments, kind, pc, now, begin, log, armed, nextFire, stdout, nreport, consumed>>
  /\ UNCHANGED <<followVars, patternVars, configVars, handlerVars, mailVars>>

StoreNext ==
  \/ \E captured \in Captures(arguments) : StoreRecord(captured)
  \/ \E o \in Orderings(log, GroupColumn(arguments)) : ExecuteQueries(o)

SpecStore == StoreInit /\ [][StoreNext]_vars

(* ------------------------ get_access_logs on its own ------------------- *)
\* the words a configuration is written with
WAccessLog == <<"a","c","c","e","s","s","_","l","o","g">>
WPath == <<"/","a">>
WOff == <<"o","f","f">>
WSyslog == <<"s","y","s","l","o","g",":","s">>
WMain == <<"m","a","i","n">>
WOption == <<"k","=","v">>
WQuoted == <<"'","m"," ","n","'">>
\* a directive that is not access_log: "root /access_log.e"
WRoot == <<"r","o","o","t"," ","/","a","c","c","e","s","s","_","l","o","g",".","e">>
WSemicolon == <<";">>
WHash == <<"#">>
WNewline == <<"\n">>

Words == {WAccessLog, WPath, WOff, WSyslog, WMain, WOption, WQuoted, WRoot,
          WSemicolon, WHash, WNewline}

\* the configurations: up to MaxWords words
Configs == UNION {[1..k -> Words] : k \in 0..MaxWords}

RECURSIVE ConfigText(_)
\* the text of the configuration: its words with a blank between them
ConfigText(ws) ==
  IF ws = <<>> THEN <<>>
  ELSE IF Len(ws) = 1 THEN ws[1]
  ELSE ws[1] \o <<" ">> \o ConfigText(Tail(ws))

\* the white space pyparsing skips before an element
White == {" ", "\n"}

\* Word(printables without { ; " '): the characters of an unquoted parameter
ParameterChars ==
  {"a","c","e","s","_","l","o","g","/","f","y",":","m","i","n","k","=","v",".","#","r","t"}

Quotes == {"'", "\""}

\* the least place from i on whose character is in chars (when member) or is
\* not in chars (when not member), the end of cs when there is none
FirstFrom(cs, i, chars, member) ==
  IF \E j \in i..Len(cs) : (cs[j] \in chars) = member
    THEN CHOOSE j \in i..Len(cs) : /\ (cs[j] \in chars) = member
                                  /\ \A k \in i..(j - 1) : (cs[k] \in chars) # member
    ELSE Len(cs) + 1

RECURSIVE PreParse(_, _)
\* preParse of an element that ignores pythonStyleComment: the place after
\* the white space and the '#...' comments that start at i; j is the place
\* after the white space
SkipComment(cs, j) ==
  IF j <= Len(cs) /\ cs[j] = "#" THEN PreParse(cs, FirstFrom(cs, j, {"\n"}, TRUE)) ELSE j

PreParse(cs, i) == SkipComment(cs, FirstFrom(cs, i, White, FALSE))

\* Literal("access_log") at place i
LiteralAt(cs, i) ==
  i + Len(WAccessLog) - 1 <= Len(cs) /\ SubSeq(cs, i, i + Len(WAccessLog) - 1) = WAccessLog

NoParameter(i) == [ok |-> FALSE, value |-> <<>>, next |-> i]

\* the Word that starts at place i and ends before place j
WordAt(cs, i, j) == [ok |-> TRUE, value |-> SubSeq(cs, i, j - 1), next |-> j]

\* quotedString at place i, where cs[i] is a quote and j the place of the
\* next quote or end of line: a match when j holds the same quote
QuotedAt(cs, i, j) ==
  IF j <= Len(cs) /\ cs[j] = cs[i]
    THEN [ok |-> TRUE, value |-> SubSeq(cs, i + 1, j - 1), next |-> j + 1]
    ELSE NoParameter(i)

\* parameter at place i, white space and comments skipped: a Word, or a
\* quotedString with its quotes removed
ParameterAt(cs, i) ==
  IF i > Len(cs) THEN NoParameter(i)
  ELSE IF cs[i] \in ParameterChars THEN WordAt(cs, i, FirstFrom(cs, i, ParameterChars, FALSE))
  ELSE IF cs[i] \in Quotes THEN QuotedAt(cs, i, FirstFrom(cs, i + 1, Quotes \cup {"\n"}, TRUE))
  ELSE NoParameter(i)

\* the values r with the value v before them
Prepend(v, r) == [values |-> <<v>> \o r.values, next |-> r.next]

RECURSIVE Parameters(_, _)
\* ZeroOrMore(parameter) from place i: the values and the place after them;
\* p is what parameter gave at i
MoreParameters(cs, i, p) ==
  IF p.ok THEN Prepend(p.value, Parameters(cs, p.next)) ELSE [values |-> <<>>, next |-> i]

Parameters(cs, i) == MoreParameters(cs, i, ParameterAt(cs, PreParse(cs, i)))

NoDirective(i) == [ok |-> FALSE, directive |-> <<>>, next |-> i]

\* semicolon after the parameters ps, j being the place preParse gave
SemicolonAt(cs, i, ps, j) ==
  IF j <= Len(cs) /\ cs[j] = ";"
    THEN [ok |-> TRUE, directive |-> <<WAccessLog>> \o ps.values, next |-> j + 1]
    ELSE NoDirective(i)

\* the parameters ps, then semicolon
ParametersThenSemicolon(cs, i, ps) == SemicolonAt(cs, i, ps, PreParse(cs, ps.next))

\* Literal("access_log") + ZeroOrMore(parameter) + semicolon at place i
DirectiveAt(cs, i) ==
  IF LiteralAt(cs, i) THEN ParametersThenSemicolon(cs, i, Parameters(cs, i + Len(WAccessLog)))
  ELSE NoDirective(i)

RECURSIVE searchString(_, _)
\* one turn of scanString: j is the place preParse gave and d what the
\* expression matched there; after a failure the scan goes on at j + 1
ScanTurn(cs, j, d) ==
  IF d.ok THEN <<d.directive>> \o searchString(cs, d.next) ELSE searchString(cs, j + 1)

\* what is left to scan from place j, the place preParse gave
ScanFrom(cs, j) == IF j > Len(cs) THEN <<>> ELSE ScanTurn(cs, j, DirectiveAt(cs, j))

\* access_log.searchString(config): the matches found scanning from place i
searchString(cs, i) == IF i > Len(cs) + 1 THEN <<>> ELSE ScanFrom(cs, PreParse(cs, i))

\* path.startswith('syslog:')
StartsWithSyslog(path) == Len(path) >= 7 /\ SubSeq(path, 1, 7) = SubSeq(WSyslog, 1, 7)

Combined == <<"c","o","m","b","i","n","e","d">>

\* format_name of a directive
FormatName(directive) ==
  IF Len(directive) > 2 /\ \A j \in 1..Len(directive[3]) : directive[3][j] # "="
    THEN directive[3] ELSE Combined

\* the pair yielded for a directive before the outcome r of the later ones
ThenPairs(pair, r) == [err |-> r.err, pairs |-> <<pair>> \o r.pairs]

RECURSIVE YieldPairs(_)
\* the loop of get_access_logs over the directives found: the pairs yielded
\* and the exception that ended the generator, "" when it came to its end
YieldPairs(directives) ==
  IF directives = <<>> THEN [err |-> "", pairs |-> <<>>]
  ELSE IF Len(directives[1]) < 2 THEN [err |-> "IndexError", pairs |-> <<>>]
  ELSE IF directives[1][2] = WOff \/ StartsWithSyslog(directives[1][2])
    THEN YieldPairs(Tail(directives))
  ELSE ThenPairs([path |-> directives[1][2], format_name |-> FormatName(directives[1])],
                 YieldPairs(Tail(directives)))

\* list(get_access_logs(config))
get_access_logs(cs) == YieldPairs(searchString(cs, 1))

ConfigInit ==
  /\ RunIdle
  /\ FollowIdle
  /\ PatternIdle
  /\ HandlerIdle
  /\ MailIdle
  /\ conf \in Configs
  /\ access_logs = NoAccessLogs
  /\ cpc = "start"

\* access_logs = list(get_access_logs(config_str))
GetAccessLogs ==
  /\ cpc = "start"
  /\ access_logs' = get_access_logs(ConfigText(conf))
  /\ cpc' = "done"
  /\ UNCHANGED <<conf>>
  /\ UNCHANGED <<runVars, followVars, patternVars, handlerVars, mailVars>>

ConfigNext == GetAccessLogs

SpecConfig == ConfigInit /\ [][ConfigNext]_vars

(* ------------------ print_report statement by statement ---------------- *)
\* The handler of SIGALRM and the main flow share one thread: the handler
\* runs between two bytecodes of the main flow, which goes on only when the
\* handler has returned or raised.  report() is followed one statement at a
\* time; the clock may advance between any two of them.  The run is taken up
\* after setup_reporter has set the timer, before process_log is called.

\* the captures of the lines the main flow reads meanwhile
HandlerCaptures == {Capture(<<"a">>, <<"2","0","0">>), Capture(<<"a">>, <<"4","0","4">>)}

HandlerInit ==
  /\ arguments \in [cmd : {"default"}, var : {"remote_addr"}, group_by : {"request_path"},
                    query : {NoQuery}, no_follow : {FALSE}, second : Seconds,
                    log_format : {CombinedName}, limit : {DefaultLimit}]
  /\ kind \in {"ngxtop", "sqlprocessor"}
  /\ pc = "setup"
  /\ now = 1
  /\ begin = 0
  /\ log = <<>>
  /\ armed = TRUE
  /\ nextFire = 0
  /\ stdout = 0
  /\ nreport = 0
  /\ consumed = <<>>
  /\ last = NoOp
  /\ FollowIdle
  /\ PatternIdle
  /\ ConfigIdle
  /\ hpc = "main"
  /\ hframe = NoFrame
  /\ MailIdle

\* time passes, in the main flow or between two statements of the handler
HandlerTick ==
  /\ pc \in {"setup", "ingesting"}
  /\ now < MaxTime
  /\ now' = now + 1
  /\ UNCHANGED <<arguments, kind, pc, begin, log, armed, nextFire, stdout, nreport, consumed, last>>
  /\ UNCHANGED <<followVars, patternVars, configVars, handlerVars, mailVars>>

\* process_log reaches processor.process, which sets self.begin
HandlerStart ==
  /\ hpc = "main"
  /\ StartProcess

\* one turn of "for r in records" in the main flow, which runs only while
\* no handler does
HandlerIngest(captured) ==
  /\ hpc = "main"
  /\ pc = "ingesting"
  /\ Len(consumed) < MaxLines
  /\ consumed' = Append(consumed, captured)
  /\ Execute(derive(captured))
  /\ UNCHANGED <<arguments, kind, now, begin, armed, nextFire, stdout, nreport>>
  /\ UNCHANGED <<followVars, patternVars, configVars, handlerVars, mailVars>>

\* SIGALRM is delivered: print_report is entered and calls processor.report()
Signal ==
  /\ hpc = "main"
  /\ pc \in {"setup", "ingesting"}
  /\ armed
  /\ nreport < MaxTime
  /\ hpc' = "called"
  /\ hframe' = NoFrame
  /\ nreport' = nreport + 1
  /\ UNCHANGED <<arguments, kind, pc, now, begin, log, armed, nextFire, stdout, consumed, last>>
  /\ UNCHANGED <<followVars, patternVars, configVars, mailVars>>

\* "if not self.begin: return ''" and "count = self.count()"
ReportCount ==
  /\ hpc = "called"
  /\ IF not_begun(begin)
       THEN /\ hpc' = "main"
            /\ hframe' = [hframe EXCEPT !.ended = "returned"]
       ELSE /\ hpc' = "counted"
            /\ hframe' = [hframe EXCEPT !.count = Len(log)]
  /\ UNCHANGED runVars
  /\ UNCHANGED <<followVars, patternVars, configVars, mailVars>>

\* "duration = time.time() - self.begin" and the status line, which divides
\* by duration
ReportStatus ==
  /\ hpc = "counted"
  /\ IF now - begin = 0
       THEN /\ hpc' = "main"
            /\ hframe' = [hframe EXCEPT !.ended = "ZeroDivisionError"]
            /\ pc' = "crashed"
       ELSE /\ hpc' = "status"
            /\ hframe' = hframe
            /\ pc' = pc
  /\ UNCHANGED <<arguments, kind, now, begin, log, armed, nextFire, stdout, nreport, consumed, last>>
  /\ UNCHANGED <<followVars, patternVars, configVars, mailVars>>

\* "for query in self.report_queries: cursor.execute(query) ...", after
\* which ngxtop.SQLProcessor.report() returns
ReportQueries ==
  /\ hpc = "status"
  /\ IF execute_raises(arguments.query) # ""
       THEN /\ hpc' = "main"
            /\ hframe' = [hframe EXCEPT !.ended = execute_raises(arguments.query)]
            /\ pc' = "crashed"
       ELSE /\ hpc' = IF kind = "ngxtop" THEN "main" ELSE "queried"
            /\ hframe' = [hframe EXCEPT !.aggregated = Len(log),
                                        !.ended = IF kind = "ngxtop" THEN "returned" ELSE ""]
            /\ pc' = pc
  /\ UNCHANGED <<arguments, kind, now, begin, log, armed, nextFire, stdout, nreport, consumed, last>>
  /\ UNCHANGED <<followVars, patternVars, configVars, mailVars>>

\* sqlprocessor.SQLProcessor.report(): "now = time.time()", the eviction
\* test, the eviction and the return
ReportEvict ==
  /\ hpc = "queried"
  /\ hpc' = "main"
  /\ IF now - begin >= arguments.second
       THEN /\ log' = evict(log, begin, now).log
            /\ begin' = evict(log, begin, now).begin
            /\ pc' = IF evict(log, begin, now).err = "" THEN pc ELSE "crashed"
            /\ hframe' = [hframe EXCEPT !.due = TRUE,
                                        !.deleted = Len(log) - Len(evict(log, begin, now).log),
                                        !.ended = IF evict(log, begin, now).err = ""
                                                    THEN "returned" ELSE evict(log, begin, now).err]
       ELSE /\ hframe' = [hframe EXCEPT !.ended = "returned"]
            /\ UNCHANGED <<log, begin, pc>>
  /\ UNCHANGED <<arguments, kind, now, armed, nextFire, stdout, nreport, consumed, last>>
  /\ UNCHANGED <<followVars, patternVars, configVars, mailVars>>

HandlerNext ==
  \/ HandlerTick
  \/ HandlerStart
  \/ \E captured \in HandlerCaptures : HandlerIngest(captured)
  \/ Signal
  \/ ReportCount
  \/ ReportStatus
  \/ ReportQueries
  \/ ReportEvict

SpecHandler == HandlerInit /\ [][HandlerNext]_vars

(* ------------------- EMailProcessor statement by statement ------------- *)
\* An EMailProcessor driven as process() drives a processor: process_log
\* calls processor.process(records) and, in follow mode, SIGALRM runs
\* print_report, which calls processor.report(), between two bytecodes of
\* the main flow.  The handler runs to its end before the main flow goes on,
\* so report() is one step; the statements of the loop body of process() are
\* steps of their own, and a statement "d[k] = 1 + d.setdefault(k, 0)" on an
\* attribute of self is two: the value is computed, then self.<attribute> is
\* read again and the value stored.

\* the reports a run makes at most
MaxReports == 2

\* the records parse_log gives: status, status_type and request_path are
\* always present, so no statement of the try block raises
MailRecords ==
  {[status |-> "200", status_type |-> 2, request_path |-> "/a"],
   [status |-> "404", status_type |-> 4, request_path |-> "/a"],
   [status |-> "200", status_type |-> 2, request_path |-> "/b"]}

\* d.setdefault(k, v): the dict afterwards
setdefault(d, k, v) == IF k \in DOMAIN d THEN d ELSE [x \in DOMAIN d \cup {k} |-> IF x = k THEN v ELSE d[x]]

\* d[k] = v: the dict afterwards
setitem(d, k, v) == [x \in DOMAIN d \cup {k} |-> IF x = k THEN v ELSE d[x]]

\* '%sxx' % r['status_type']
status_code_key(rcd) == IF rcd.status_type = 2 THEN "2xx" ELSE "4xx"

\* d[k] when d has the key k, else 0
ItemOr0(d, k) == IF k \in DOMAIN d THEN d[k] ELSE 0

RECURSIVE DetailCount(_, _)
\* the records the dicts of d count under 'count', over the paths ps
DetailCount(d, ps) ==
  IF ps = {} THEN 0
  ELSE LET q == CHOOSE x \in ps : TRUE
       IN ItemOr0(d[q], "count") + DetailCount(d, ps \ {q})

\* _send_mail: with self.debug nothing is sent and True is returned; else
\* the SMTP calls either all succeed or one raises, which is caught
send_mail(dbg, smtp) ==
  IF dbg THEN [hr |-> TRUE, res |-> "just-test, email did not send."]
  ELSE IF smtp = "ok" THEN [hr |-> TRUE, res |-> "success"]
  ELSE [hr |-> FALSE, res |-> "fail"]

MailInit ==
  /\ arguments \in [cmd : {"default"}, var : {"remote_addr"}, group_by : {"request_path"},
                    query : {NoQuery}, no_follow : BOOLEAN, second : {Interval},
                    log_format : {CombinedName}, limit : {DefaultLimit}]
  /\ kind = "emailprocessor"
  /\ pc = "setup"
  /\ now = 1
  /\ begin = 0
  /\ log = <<>>
  /\ armed = ~arguments.no_follow
  /\ nextFire = 0
  /\ stdout = 0
  /\ nreport = 0
  /\ consumed = <<>>
  /\ last = NoOp
  /\ FollowIdle
  /\ PatternIdle
  /\ ConfigIdle
  /\ HandlerIdle
  /\ summary = EmptyDict
  /\ detail = EmptyDict
  /\ access_log_buffer = <<>>
  /\ debug \in BOOLEAN
  /\ mpc = "for"
  /\ current = NoRecord
  /\ pending = 0
  /\ path_info = NoPathInfo
  /\ delivered = NoneDelivered
  /\ mreport = NoReport

\* self.begin = time.time()
MailStart ==
  /\ pc = "setup"
  /\ pc' = "ingesting"
  /\ begin' = now
  /\ mreport' = NoReport
  /\ UNCHANGED <<arguments, kind, now, log, armed, nextFire, stdout, nreport, consumed, last>>
  /\ UNCHANGED <<summary, detail, access_log_buffer, debug, mpc, current, pending, path_info, delivered>>
  /\ UNCHANGED <<followVars, patternVars, configVars, handlerVars>>

\* a statement of the loop body: the main flow goes from statement a to b
MailStep(a, b) ==
  /\ pc = "ingesting"
  /\ mpc = a
  /\ mpc' = b
  /\ mreport' = NoReport
  /\ UNCHANGED <<arguments, kind, pc, now, begin, log, armed, nextFire, stdout, nreport, last>>
  /\ UNCHANGED <<debug, delivered>>
  /\ UNCHANGED <<followVars, patternVars, configVars, handlerVars>>

\* for r in records: self.access_log_buffer.append(r)
MailAppend(rcd) ==
  /\ MailStep("for", "appended")
  /\ Len(consumed) < MaxLines
  /\ consumed' = Append(consumed, rcd)
  /\ current' = rcd
  /\ access_log_buffer' = Append(access_log_buffer, rcd)
  /\ UNCHANGED <<summary, detail, pending, path_info>>

\* 1 + self.summary.setdefault(k, 0), the value on the stack
SummaryValue(a, b, k) ==
  /\ MailStep(a, b)
  /\ summary' = setdefault(summary, k, 0)
  /\ pending' = 1 + summary'[k]
  /\ UNCHANGED <<detail, access_log_buffer, current, path_info, consumed>>

\* self.summary[k] = the value
SummaryStore(a, b, k) ==
  /\ MailStep(a, b)
  /\ summary' = setitem(summary, k, pending)
  /\ pending' = 0
  /\ UNCHANGED <<detail, access_log_buffer, current, path_info, consumed>>

TypeValue == SummaryValue("appended", "type_value", status_code_key(current))

TypeStore == SummaryStore("type_value", "type_stored", status_code_key(current))

CountValue == SummaryValue("type_stored", "count_value", "count")

CountStore == SummaryStore("count_value", "count_stored", "count")

\* path_info = self.detail.setdefault(path, {})
PathInfo ==
  /\ MailStep("count_stored", "path_info")
  /\ detail' = setdefault(detail, current.request_path, EmptyDict)
  /\ path_info' = [left |-> FALSE, path |-> current.request_path, dict |-> detail'[current.request_path]]
  /\ UNCHANGED <<summary, access_log_buffer, current, pending, consumed>>

\* path_info[k] = 1 + path_info.setdefault(k, 0): the dict is the one the
\* name path_info holds, which self.detail holds too unless report() has put
\* a new dict in self.detail since
PathItem(a, b, k) ==
  /\ MailStep(a, b)
  /\ path_info' = [path_info EXCEPT !.dict = setitem(@, k, 1 + ItemOr0(@, k))]
  /\ detail' = IF path_info.left THEN detail ELSE setitem(detail, path_info.path, path_info'.dict)
  /\ UNCHANGED <<summary, access_log_buffer, current, pending, consumed>>

PathCount == PathItem("path_info", "path_count", "count")

PathStatus == PathItem("path_count", "for", current.status)

\* report(): nothing before process() began, nothing on an empty buffer; else
\* the report is sent and, when _send_mail returned True, the three
\* attributes are set to new empty objects
email_report(smtp) ==
  LET sent == begin # 0 /\ access_log_buffer # <<>>
      m == send_mail(debug, smtp)
      hr == sent /\ m.hr
  IN /\ mreport' = [called |-> TRUE, hr |-> hr, res |-> IF sent THEN m.res ELSE "",
                    before |-> <<summary, detail, access_log_buffer>>]
     /\ summary' = IF hr THEN EmptyDict ELSE summary
     /\ detail' = IF hr THEN EmptyDict ELSE detail
     /\ access_log_buffer' = IF hr THEN <<>> ELSE access_log_buffer
     /\ path_info' = IF hr /\ path_info # NoPathInfo THEN [path_info EXCEPT !.left = TRUE]
                     ELSE path_info
     /\ delivered' = IF hr THEN [buffer |-> delivered.buffer + Len(access_log_buffer),
                                 count |-> delivered.count + ItemOr0(summary, "count"),
                                 detail |-> delivered.detail + DetailCount(detail, DOMAIN detail)]
                     ELSE delivered
     /\ nreport' = nreport + 1

\* SIGALRM in follow mode: print_report calls report() wherever the main
\* flow is once setup_reporter has set the timer
MailReport(smtp) ==
  /\ ~arguments.no_follow
  /\ pc \in {"setup", "ingesting"}
  /\ nreport < MaxReports
  /\ email_report(smtp)
  /\ UNCHANGED <<arguments, kind, pc, now, begin, log, armed, nextFire, stdout, consumed, last>>
  /\ UNCHANGED <<debug, mpc, current, pending>>
  /\ UNCHANGED <<followVars, patternVars, configVars, handlerVars>>

\* --no-follow: the records are at their end, process() returns and
\* process_log prints what report() returns, which has printed its message
\* itself when it sent
MailFinalReport(smtp) ==
  /\ arguments.no_follow
  /\ pc = "ingesting"
  /\ mpc = "for"
  /\ email_report(smtp)
  /\ pc' = "done"
  /\ stdout' = stdout + (IF access_log_buffer # <<>> THEN 2 ELSE 1)
  /\ UNCHANGED <<arguments, kind, now, begin, log, armed, nextFire, consumed, last>>
  /\ UNCHANGED <<debug, mpc, current, pending>>
  /\ UNCHANGED <<followVars, patternVars, configVars, handlerVars>>

MailNext ==
  \/ MailStart
  \/ \E rcd \in MailRecords : MailAppend(rcd)
  \/ TypeValue
  \/ TypeStore
  \/ CountValue
  \/ CountStore
  \/ PathInfo
  \/ PathCount
  \/ PathStatus
  \/ \E smtp \in {"ok", "raises"} : MailReport(smtp)
  \/ \E smtp \in {"ok", "raises"} : MailFinalReport(smtp)

SpecMail == MailInit /\ [][MailNext]_vars

(* ------------------------------ properties ----------------------------- *)
\* the line the last IngestLine read
LastLine == consumed[Len(consumed)]

\* the outcome of parse_log on the line the last IngestLine read
LastParsed == parse_log[arguments.log_format][LastLine]

\* a line that matches, derives without an exception and has every column
Accepted(l) ==
  LET p == parse_log[arguments.log_format][l]
  IN p.err = "" /\ build_processor(arguments) \subseteq DOMAIN p.rec

\* a report() call found the eviction condition of sqlprocessor.py:151 true
EvictionDue ==
  /\ kind = "sqlprocessor"
  /\ last.op = "report"
  /\ last.begin0 # 0
  /\ last.t1 - last.begin0 >= arguments.second

\* C1: in sqlprocessor.SQLProcessor, a report() call made when at least
\* `second` has elapsed since begin returns its report, leaves table log empty
\* and sets begin to the time of the call.
C1_EvictionReturnsAndClears ==
  EvictionDue => (last.err = "" /\ last.out = "summary" /\ log = <<>> /\ begin = last.t2)

\* C2: in follow mode every row held in table log was inserted no longer ago
\* than the window length plus one reporting interval, for both processors.
C2_RowsWithinOneWindow ==
  (~arguments.no_follow /\ pc = "ingesting") =>
     \A i \in 1..Len(log) : now - log[i].t <= arguments.second + Interval

C4_ZeroElapsedGuarded ==
  (last.op = "report" /\ last.begin0 # 0 /\ last.t1 = last.begin0) =>
     (last.err = "" /\ last.out = "summary")

C6_ConversionFailureSkipsRecord ==
  (last.op = "ingest" /\ last.err = "ValueError") =>
     (pc = "ingesting" /\ Len(log) = last.count)

C8_OptionalFieldsAbsent ==
  (last.op = "ingest" /\ arguments.log_format = FmtAddrStatus /\ LastLine = LineAddr404) =>
     /\ LastParsed.err = ""
     /\ {"remote_addr", "status", "status_type"} \subseteq DOMAIN LastParsed.rec
     /\ LastParsed.rec["remote_addr"] = StrV(<<"1","0",".","0",".","0",".","1">>)
     /\ LastParsed.rec["status"] = IntV(404)
     /\ LastParsed.rec["status_type"] = IntV(4)

\* C9: process() stores exactly the columns of the schema for each record:
\* other fields are ignored and a column the record lacks is stored as null,
\* without an exception.
C9_InsertPersistsSchemaColumns ==
  (last.op = "ingest" /\ LastParsed.err = "") =>
     /\ last.err = ""
     /\ Len(log) = last.count + 1
     /\ DOMAIN log[Len(log)].row = build_processor(arguments)
     /\ \A c \in build_processor(arguments) : log[Len(log)].row[c] = Get(LastParsed.rec, c)

\* C10: a --no-follow run ends with exactly one report written to standard
\* output, by the single report() call made after the source was read.
C10_OneShotSingleReport ==
  (arguments.no_follow /\ pc \in {"done", "crashed"}) =>
     (pc = "done" /\ nreport = 1 /\ stdout = 1)

\* C11: in follow mode every report() called by the timer returns to the
\* interrupted ingestion loop, the one that meets the eviction condition
\* included: no report() call raises and none ends the run.
C11_ReportReturnsToIngestion ==
  (~arguments.no_follow /\ last.op = "report") => (last.err = "" /\ pc # "crashed")

C13_DisplayFailureKeepsIngesting ==
  (~arguments.no_follow /\ last.display = "failed") =>
     (last.err = "" /\ pc \in {"setup", "ingesting"})

\* the concatenation of a sequence of strings
RECURSIVE Flatten(_)
Flatten(ss) == IF ss = <<>> THEN <<>> ELSE ss[1] \o Flatten(Tail(ss))

\* C14: follow yields nothing that was in the file before the seek and yields
\* what was appended after it once and in order, each item being one complete
\* line (it ends with its newline); the generator goes on for ever.
C14_FollowYieldsAppendedLines ==
  fpc \in {"reading", "sleeping"} =>
     /\ Flatten(yielded) = SubSeq(the_file, start + 1, offset)
     /\ \A i \in 1..Len(yielded) : yielded[i][Len(yielded[i])] = "\n"

\* cs is the beginning of l
IsPrefix(cs, l) == Len(cs) <= Len(l) /\ SubSeq(l, 1, Len(cs)) = cs

\* a format that is literal text only: no variable and not the name of a
\* built-in format
LiteralOnly(fmt) == fmt \notin {CombinedName, CommonName} /\ Variables(fmt) = <<>>

\* C15: build_pattern never fails: for every format it returns a compiled
\* pattern, and the literal text of a format matches only itself: a format
\* without variables matches exactly the lines that begin with its text.
C15_BuildPatternNeverFails ==
  /\ ppc \in {"built", "failed", "matched"} => regex.err = ""
  /\ (ppc = "matched" /\ LiteralOnly(template)) => (found.ok <=> IsPrefix(template, subject))

\* a valid format: the name of a built-in format, or text in which every '$'
\* starts a variable name of letters, digits and '_' and whose literal text
\* has no backslash and no '^'
ValidTemplate(fmt) ==
  \/ fmt \in {CombinedName, CommonName}
  \/ \A i \in 1..Len(fmt) :
        /\ fmt[i] \notin {"\\", "^"}
        /\ fmt[i] = "$" => (i < Len(fmt) /\ fmt[i + 1] \in ConfigVariableChars)

\* C16: for every valid format, both build_pattern functions return a pattern,
\* and matching it on a line made by putting values in the place of the
\* variables (a built-in name standing for its format) captures, for each
\* variable, the value put in its place.
C16_SubstitutedValuesCaptured ==
  (ppc \in {"failed", "matched"} /\ ValidTemplate(template)) =>
     /\ regex.err = ""
     /\ (ppc = "matched" /\ substituted # NoValues) =>
          /\ found.ok
          /\ \A i \in 1..Len(substituted) :
               /\ Variables(Expand(template))[i] \in DOMAIN found.caps
               /\ found.caps[Variables(Expand(template))[i]] = substituted[i]

\* the formats that have the variable $status
WithStatus == {fmt \in Formats : \E i \in 1..Len(Variables(Expand(fmt))) : Variables(Expand(fmt))[i] = "status"}

\* C17: the record parse_log derives has a status_type field only if the
\* line was captured with a status field: with a format that has no $status
\* the record has no status_type (the value is absent, it is not 0).
C17_StatusTypeOnlyWithStatus ==
  (last.op = "ingest" /\ LastParsed.err = "" /\ arguments.log_format \notin WithStatus) =>
     "status_type" \notin DOMAIN LastParsed.rec

\* C18: derivation is idempotent: the stages of parse_log applied to a record
\* that is already their output return the same record, every field value
\* unchanged.
C18_DerivationIdempotent ==
  (last.op = "ingest" /\ LastParsed.err = "") => derive(LastParsed.rec) = LastParsed

\* a derived record with a status and a request time that are not 0
C18_Witness ==
  /\ last.op = "ingest"
  /\ LastParsed.err = ""
  /\ LastParsed.rec["status"].n > 0
  /\ LastParsed.rec["request_time"].n > 0
  /\ LastParsed.rec["request_path"] # NoneV
  /\ derive(LastParsed.rec) = LastParsed

\* the status of the line the captures came from, 0 for '-'
StatusNumber(captured) ==
  IF captured["status"].s = <<"-">> THEN 0 ELSE ParseInt(captured["status"].s).n

\* the status_type values of the stored rows, in insertion order
StoredTypes == [i \in 1..Len(log) |-> log[i].row["status_type"].n]

\* C19: in the row the default Summary query returns, every stored row is
\* counted in count and in at most one of '2xx', '3xx', '4xx', '5xx': a row
\* derived from status s adds one to the bucket of s div 100 when that is 2,
\* 3, 4 or 5 and to no other, and rows with status_type values 2, 2, 3, 4, 5
\* give count 5 and buckets 2, 1, 1, 1.
C19_SummaryBuckets ==
  (last.op = "queries" /\ arguments.cmd = "default" /\ last.summary # <<>>) =>
     /\ Len(last.summary) = 1
     /\ Len(log) = Len(consumed)
     /\ last.summary[1].count = Len(log)
     /\ \A b \in 2..5 :
          last.summary[1].xx[b] =
            Cardinality({i \in 1..Len(log) : StatusNumber(consumed[i]) \div 100 = b})
     /\ \A i \in 1..Len(log) :
          /\ summary_query(<<log[i]>>, 1)[1].count = 1
          /\ \A b \in 2..5 :
               summary_query(<<log[i]>>, 1)[1].xx[b] =
                 IF StatusNumber(consumed[i]) \div 100 = b THEN 1 ELSE 0
     /\ StoredTypes = <<2, 2, 3, 4, 5>> =>
          /\ last.summary[1].count = 5
          /\ last.summary[1].xx = [b \in 2..5 |-> IF b = 2 THEN 2 ELSE 1]

\* the Summary query has run on rows of status_type 2, 2, 3, 4, 5
C19_Witness ==
  /\ last.op = "queries"
  /\ arguments.cmd = "default"
  /\ last.summary # <<>>
  /\ StoredTypes = <<2, 2, 3, 4, 5>>
  /\ last.summary[1].count = 5
  /\ last.summary[1].xx[2] = 2

\* the stored rows that hold the value v in the column of "top"
RowsOf(v) == {i \in 1..Len(log) : log[i].row[arguments.var] = v}

\* the place of the first stored row that holds v
FirstRowOf(v) == CHOOSE i \in RowsOf(v) : \A j \in RowsOf(v) : i <= j

\* the rows of "top <field>": one row per value, no value twice, each with
\* its number of stored rows, by descending count, and the values left out
\* are counted no more often than the ones returned
TopRowsByCount(rows) ==
  /\ \A i \in DOMAIN rows : RowsOf(rows[i].value) # {} /\ rows[i].count = Cardinality(RowsOf(rows[i].value))
  /\ \A i, j \in DOMAIN rows : i # j => rows[i].value # rows[j].value
  /\ \A i, j \in DOMAIN rows : i < j => rows[i].count >= rows[j].count
  /\ \A v \in GroupKeys(log, arguments.var) :
       (\A i \in DOMAIN rows : rows[i].value # v) =>
          \A i \in DOMAIN rows : rows[i].count >= Cardinality(RowsOf(v))

\* the number of rows "limit n" leaves of a result of k rows
RowsLeft(k, n) == IF n < k THEN n ELSE k

RECURSIVE Uncommented(_, _)
\* the words of a configuration that are not in a comment: a '#' comments
\* out the rest of its line
Uncommented(ws, inComment) ==
  IF ws = <<>> THEN <<>>
  ELSE IF ws[1] = WNewline THEN Uncommented(Tail(ws), FALSE)
  ELSE IF inComment \/ ws[1] = WHash THEN Uncommented(Tail(ws), TRUE)
  ELSE <<ws[1]>> \o Uncommented(Tail(ws), FALSE)

RECURSIVE DirectivesOf(_, _)
\* the directives of a configuration: the words before each ';'
DirectivesOf(ws, words) ==
  IF ws = <<>> THEN <<>>
  ELSE IF ws[1] = WSemicolon THEN <<words>> \o DirectivesOf(Tail(ws), <<>>)
  ELSE DirectivesOf(Tail(ws), Append(words, ws[1]))

\* the uncommented directives of the configuration given to get_access_logs
ConfDirectives == DirectivesOf(Uncommented(conf, FALSE), <<>>)

\* a parameter as nginx reads it: without its quotes
Unquoted(w) == IF w[1] \in Quotes THEN SubSeq(w, 2, Len(w) - 1) ELSE w

\* every directive is "root <path>" or an access_log with a path
ValidDirectives ==
  \A i \in 1..Len(ConfDirectives) :
     \/ ConfDirectives[i] = <<WRoot>>
     \/ Len(ConfDirectives[i]) >= 2 /\ ConfDirectives[i][1] = WAccessLog

RECURSIVE ExpectedPairs(_)
\* one pair for each access_log directive whose path is neither 'off' nor
\* starts with 'syslog:', with the second parameter as format name when it
\* exists and has no '=', and 'combined' otherwise
ExpectedPairs(ds) ==
  IF ds = <<>> THEN <<>>
  ELSE IF ds[1][1] # WAccessLog \/ Unquoted(ds[1][2]) = WOff \/ StartsWithSyslog(Unquoted(ds[1][2]))
    THEN ExpectedPairs(Tail(ds))
  ELSE <<[path |-> Unquoted(ds[1][2]),
          format_name |-> IF Len(ds[1]) >= 3 /\ \A j \in 1..Len(ds[1][3]) : ds[1][3][j] # "="
                            THEN Unquoted(ds[1][3]) ELSE Combined]>>
       \o ExpectedPairs(Tail(ds))

\* C21: get_access_logs yields exactly one (path, format name) pair for each
\* uncommented access_log directive whose path is neither 'off' nor starts
\* with 'syslog:'; the format name is the second parameter when it exists and
\* contains no '=', and 'combined' otherwise; commented-out directives and
\* other directives yield nothing.
C21_OnePairPerAccessLogDirective ==
  (cpc = "done" /\ ValidDirectives) =>
     access_logs = [err |-> "", pairs |-> ExpectedPairs(ConfDirectives)]

\* the statements of a report() call leave the table as its count found it
C22_NoInsertDuringReport ==
  /\ hpc \in {"counted", "status", "queried"} => Len(log) = hframe.count
  /\ (hpc = "queried" \/ hframe.ended = "returned") => hframe.aggregated = hframe.count

Idle == pc \in {"start", "setup"}

Ingesting == pc = "ingesting"

Terminated == pc \in {"done", "crashed"}

\* a step in which processor.report() is called
Reporting == nreport' # nreport

\* the steps of the run other than Reporting: Idle goes on to Ingesting, or
\* to Terminated when the setup raises, Ingesting to Terminated, and
\* Terminated is left no more
RunSteps ==
  /\ (Idle /\ ~Reporting) => (Idle' \/ Ingesting' \/ (Terminated' /\ pc = "start"))
  /\ (Ingesting /\ ~Reporting) => (Ingesting' \/ Terminated')
  /\ Terminated => (Terminated' /\ ~Reporting)

C24_ResetIffSendSucceeded ==
  mreport.called =>
    IF mreport.hr THEN <<summary, detail, access_log_buffer>> = <<EmptyDict, EmptyDict, <<>>>>
    ELSE <<summary, detail, access_log_buffer>> = mreport.before

\* C24: report() discards buffered data only after a successful send: the
\* three attributes are reset if and only if _send_mail returned success and
\* are unchanged after a failed send, so that every record processed is held
\* by a report that was sent or by the buffer, the summary and the detail of
\* the next one.
C24_EveryRecordReported ==
  /\ C24_ResetIffSendSucceeded
  /\ (pc = "ingesting" /\ mpc = "for") =>
       /\ Len(consumed) = delivered.buffer + Len(access_log_buffer)
       /\ Len(consumed) <= delivered.count + ItemOr0(summary, "count")
       /\ Len(consumed) <= delivered.detail + DetailCount(detail, DOMAIN detail)

====
